---- MODULE Spec2Model ----
(***************************************************************************)
(* Model of the pywws upload services (CWOP, OpenWeatherMap) and of the    *)
(* Met Office bulk CSV generator.                                          *)
(*                                                                         *)
(*   Spec        one upload service process (pywws.service.main(ToService)) *)
(*               with its throttle, sessions, upload_data and register     *)
(*   SpecExport  GenerateBulk over a reading store                         *)
(*   SpecAgg     max_temp24 as a pure function, with store append          *)
(*   SpecFields  resolution of one field of the CWOP template or of one    *)
(*               column of the CSV export                                  *)
(*   SpecCatchup catch-up of an upload service after an outage             *)
(***************************************************************************)
EXTENDS Integers, Sequences, FiniteSets, TLC

VARIABLES
    \* ---- upload service process ----
    service,        \* which module runs: "cwop" or "openweathermap"
    python3,        \* interpreter: TRUE for Python 3, FALSE for Python 2
    ws_type,        \* context.params.get('config', 'ws type')
    now,            \* wall clock, seconds
    last_start,     \* start time of the latest attempt, -1 if none
    prev_start,     \* start time of the attempt before it, -1 if none
    trig_last,      \* latest upload trigger  [t, mode, started]
    pc,             \* position of the service's thread of control
    sess,           \* transport session: "none", "open" or "closed"
    result,         \* how the latest attempt ended
    login_ack,      \* what the server answered to the login line
    packet_sent,    \* the status packet of this attempt went out
    cause,          \* why the latest attempt failed: "none", "transport", "rejection"
    reported,       \* cause -> set of ok flags reported for failures of that cause
    params_station_id, \* weather.ini [openweathermap] 'station id' (0: not set)
    fixed_station_id,  \* ToService.fixed_data['station_id']     (0: None)
    stations,       \* station identities that exist at the remote server
    reg_op,         \* request of the latest register(): "none", "put", "post"
    steps,          \* protocol steps performed in the latest session, in order
    raised_at,      \* the step of it that raised, "none" if none did
    rsp_status,     \* rsp.status_code of the latest post (0: the post raised, -1: no post)
    \* ---- bulk generator / aggregation ----
    store,          \* calib_data: readings in ascending idx order
    utcnow,         \* datetime.utcnow(), minutes
    i,              \* position of the export loop in the range
    prev_idx,       \* GenerateBulk.prev_idx
    emitted,        \* rows written by csv_writer.writerow
    fetches,        \* midnight of each reference lookup rain_day made
    epc,            \* export loop: "idle", "loop", "done", "raised"
    at,             \* SpecAgg: index of the reading queried
    res_before,     \* SpecAgg: max_temp24 before the append
    res_after,      \* SpecAgg: max_temp24 after the append
    apc,            \* SpecAgg: "idle", "start", "queried", "appended"
    \* ---- field resolution ----
    fcfg,           \* configuration: [ws3080, altitude] (station type, altitude set)
    fld,            \* the field that is resolved
    fval,           \* the value of its source: [none, v]
    fout,           \* what the resolution produced
    fpc,            \* "idle", "start", "resolved"
    \* ---- catch-up after an outage ----
    backlog,        \* readings missed during the outage, numbered 1..backlog
    cu_next,        \* the missed reading the catch-up uploads next
    uploaded,       \* missed readings uploaded, in the order of upload
    watermark,      \* the last reading uploaded successfully (0: none)
    fails,          \* failed attempts so far
    cpc             \* "idle", "down", "catchup", "done"

uploadVars == <<service, python3, ws_type, now, last_start, prev_start,
                trig_last, pc, sess, result, login_ack,
                packet_sent, cause, reported, params_station_id,
                fixed_station_id, stations, reg_op, steps, raised_at,
                rsp_status>>
attemptLog == <<steps, raised_at, rsp_status>>
exportVars == <<utcnow, i, prev_idx, emitted, fetches, epc>>
aggVars    == <<at, res_before, res_after, apc>>
fieldVars  == <<fcfg, fld, fval, fout, fpc>>
catchVars  == <<backlog, cu_next, uploaded, watermark, fails, cpc>>
vars       == <<uploadVars, store, exportVars, aggVars, fieldVars, catchVars>>

(***************************************************************************)
(* Bounds                                                                  *)
(***************************************************************************)
MaxTime     == 400      \* the clock stops here
MaxStations == 2        \* station identities the server hands out
MaxLen      == 3        \* readings in the store

Services  == {"cwop", "openweathermap"}
Modes     == {"live", "logged"}
Steps     == {20, 40, 250}              \* clock advances, seconds
RainHours == {"000", "012", "..."}      \* prepared_data['rain_hour']
Statuses  == {204, 200, 401}            \* HTTP status codes of a response

(***************************************************************************)
(* Class attributes                                                        *)
(***************************************************************************)
cwop_interval == 290
owm_interval  == 40

interval_short(s) == IF s = "cwop" THEN 60 ELSE 20

\* ToService.interval of the running module, seconds
interval(s) == IF s = "cwop" THEN cwop_interval ELSE owm_interval

(***************************************************************************)
(* Results of an attempt                                                   *)
(***************************************************************************)
NoResult    == [kind |-> "none",     ok |-> FALSE, msg |-> ""]
Raised(m)   == [kind |-> "raised",   ok |-> FALSE, msg |-> m]
Returned(o, m) == [kind |-> "returned", ok |-> o, msg |-> m]

NoTrigger == [t |-> -1, mode |-> "none", started |-> FALSE]

(***************************************************************************)
(* Sessions                                                                *)
(***************************************************************************)
cwop_session_exit_leak(raised) == IF raised THEN "open" ELSE "closed"

\* cwop.session: "with closing(socket.socket()) as session" is left, by the
\* generator running to its end or by an exception thrown into it
cwop_session_exit(raised) == "closed"

\* openweathermap.session: "with requests.Session() as session" is left
owm_session_exit(raised) == "closed"

session_exit(raised) ==
    IF service = "cwop" THEN cwop_session_exit(raised)
                        ELSE owm_session_exit(raised)

(***************************************************************************)
(* Idle values of the parts a specification does not run                   *)
(***************************************************************************)
UploadIdle ==
    /\ service = "cwop" /\ python3 = FALSE /\ ws_type = "1080"
    /\ now = 0 /\ last_start = -1 /\ prev_start = -1
    /\ trig_last = NoTrigger
    /\ pc = "off" /\ sess = "none" /\ result = NoResult
    /\ login_ack = "none" /\ packet_sent = FALSE /\ cause = "none"
    /\ reported = [c \in {"transport", "rejection"} |-> {}]
    /\ params_station_id = 0 /\ fixed_station_id = 0
    /\ stations = {} /\ reg_op = "none"
    /\ steps = <<>> /\ raised_at = "none" /\ rsp_status = -1

ExportIdle ==
    /\ utcnow = 0 /\ i = 1 /\ prev_idx = 0 /\ emitted = <<>> /\ epc = "idle"
    /\ fetches = <<>>

AggIdle ==
    /\ at = 0 /\ res_before = 0 /\ res_after = 0 /\ apc = "idle"

NoValue == [none |-> TRUE, v |-> 0]
NoOut   == [raised |-> FALSE, kind |-> "none", width |-> 0]

FieldsIdle ==
    /\ fcfg = [ws3080 |-> FALSE, altitude |-> FALSE]
    /\ fld = "none" /\ fval = NoValue /\ fout = NoOut /\ fpc = "idle"

CatchupIdle ==
    /\ backlog = 0 /\ cu_next = 0 /\ uploaded = <<>> /\ watermark = 0
    /\ fails = 0 /\ cpc = "idle"

(***************************************************************************)
(* The upload service process                                              *)
(***************************************************************************)
\* openweathermap.ToService.__init__: fixed_data takes the configured
\* 'station id' (None when the key is absent)
owm_init_station_id(configured) == configured

Init ==
    /\ service \in Services
    \* the interpreter and the station type are read by cwop only, the
    \* station id by openweathermap only
    /\ python3 \in (IF service = "cwop" THEN BOOLEAN ELSE {FALSE})
    /\ ws_type \in (IF service = "cwop" THEN {"1080", "3080"} ELSE {"1080"})
    /\ now = 0 /\ last_start = -1 /\ prev_start = -1
    /\ trig_last = NoTrigger
    /\ pc = "idle" /\ sess = "none" /\ result = NoResult
    /\ login_ack = "none" /\ packet_sent = FALSE /\ cause = "none"
    /\ reported = [c \in {"transport", "rejection"} |-> {}]
    /\ params_station_id \in (IF service = "cwop" THEN {0} ELSE {0, 1})
    /\ fixed_station_id = owm_init_station_id(params_station_id)
    /\ stations = IF params_station_id = 0 THEN {} ELSE {params_station_id}
    /\ reg_op = "none"
    /\ steps = <<>> /\ raised_at = "none" /\ rsp_status = -1
    /\ store = <<>>
    /\ ExportIdle /\ AggIdle /\ FieldsIdle /\ CatchupIdle

unchangedRest == UNCHANGED <<store, exportVars, aggVars, fieldVars, catchVars>>

\* the clock advances
Tick ==
    /\ pc # "off"
    /\ \E d \in Steps :
        /\ now + d <= MaxTime
        /\ now' = now + d
    /\ UNCHANGED <<service, python3, ws_type, last_start, prev_start,
                   trig_last, pc, sess, result, login_ack,
                   packet_sent, cause, reported, params_station_id,
                   fixed_station_id, stations, reg_op>>
    /\ UNCHANGED attemptLog
    /\ unchangedRest

\* an attempt may begin: none before it, or a full interval since it began
throttle_ok == last_start = -1 \/ now - last_start >= interval(service)

\* a session is entered: the transport object exists from here on
session_enter == "open"

\* A live or logged trigger reaches the service while no attempt is in
\* flight.  Inside the interval the trigger is dropped; otherwise an attempt
\* begins by entering self.session().
Trigger ==
    /\ pc = "idle"
    /\ \E m \in Modes :
        /\ IF throttle_ok
           THEN /\ trig_last' = [t |-> now, mode |-> m, started |-> TRUE]
                /\ prev_start' = last_start
                /\ last_start' = now
                /\ sess' = session_enter
                /\ pc' = IF service = "cwop" THEN "connect" ELSE "post"
                /\ result' = NoResult
                /\ login_ack' = "none"
                /\ packet_sent' = FALSE
                /\ cause' = "none"
                /\ steps' = <<>>
                /\ raised_at' = "none"
                /\ rsp_status' = -1
           ELSE /\ trig_last' = [t |-> now, mode |-> m, started |-> FALSE]
                /\ UNCHANGED <<prev_start, last_start, sess, pc, result,
                               login_ack, packet_sent, cause>>
                /\ UNCHANGED attemptLog
    /\ UNCHANGED <<service, python3, ws_type, now, reported,
                   params_station_id, fixed_station_id, stations, reg_op>>
    /\ unchangedRest

\* an exception leaves the "with self.session()" block: the attempt is over
Propagate(m, c) ==
    /\ sess' = session_exit(TRUE)
    /\ pc' = "idle"
    /\ result' = Raised(m)
    /\ cause' = c

\* upload_data returns to the block that holds the session
Return(o, m, c) ==
    /\ pc' = "returned"
    /\ result' = Returned(o, m)
    /\ cause' = c
    /\ reported' = IF c = "none" THEN reported
                   ELSE [reported EXCEPT ![c] = @ \cup {o}]
    /\ UNCHANGED sess

\* a protocol step is performed and either completes or raises
Step(name, ok) ==
    /\ steps' = Append(steps, name)
    /\ raised_at' = IF ok THEN raised_at ELSE name

uploadFrame == UNCHANGED <<service, python3, ws_type, now, last_start,
                           prev_start, trig_last,
                           params_station_id, fixed_station_id, stations,
                           reg_op>>

\* cwop.session: session.connect((server, 14580))
CwopConnect ==
    /\ service = "cwop" /\ pc = "connect"
    /\ \E ok \in BOOLEAN :
        /\ Step("connect", ok)
        /\ IF ok THEN /\ pc' = "banner"
                      /\ UNCHANGED <<sess, result, cause>>
                 ELSE Propagate("connect", "transport")
    /\ UNCHANGED <<login_ack, packet_sent, reported>>
    /\ UNCHANGED rsp_status
    /\ uploadFrame /\ unchangedRest

\* cwop.session: session.recv(4096).decode('ASCII'), then yield session
CwopBanner ==
    /\ service = "cwop" /\ pc = "banner"
    /\ \E ok \in BOOLEAN :
        /\ Step("banner", ok)
        /\ IF ok THEN /\ pc' = "yielded"
                      /\ UNCHANGED <<sess, result, cause>>
                 ELSE Propagate("banner", "transport")
    /\ UNCHANGED <<login_ack, packet_sent, reported>>
    /\ UNCHANGED rsp_status
    /\ uploadFrame /\ unchangedRest

\* int(prepared_data['rain_hour']) raises ValueError on the sentinel
int_ok(s) == s # "..."

\* cwop.upload_data up to the try block: the login and the packet are built.
\* int() is evaluated only for a 3080 station; under Python 3
\* packet.encode('ASCII') + '\n' adds bytes and str and raises TypeError.
cwop_build_raises(rain_hour) ==
    \/ (ws_type = "3080" /\ ~int_ok(rain_hour))
    \/ python3

CwopBuild ==
    /\ service = "cwop" /\ pc = "yielded"
    /\ \E rh \in RainHours :
        IF cwop_build_raises(rh)
        THEN Propagate("build", "none")
        ELSE /\ pc' = "login"
             /\ UNCHANGED <<sess, result, cause>>
    /\ UNCHANGED <<login_ack, packet_sent, reported>>
    /\ UNCHANGED attemptLog
    /\ uploadFrame /\ unchangedRest

\* session.sendall(login)
CwopSendLogin ==
    /\ service = "cwop" /\ pc = "login"
    /\ \E ok \in BOOLEAN :
        /\ Step("login", ok)
        /\ IF ok THEN /\ pc' = "ack"
                      /\ UNCHANGED <<sess, result, cause, reported>>
                 ELSE Return(FALSE, "sendall login", "transport")
    /\ UNCHANGED <<login_ack, packet_sent>>
    /\ UNCHANGED rsp_status
    /\ uploadFrame /\ unchangedRest

\* the packet left out after the login
cwop_after_ack_skip(answer) == "shutdown"

\* what upload_data does with the server's answer to the login line: the
\* answer is decoded and logged, and the packet is sent next whatever it says
cwop_after_ack(answer) == "packet"

\* response = session.recv(4096).decode('ASCII')
CwopRecvAck ==
    /\ service = "cwop" /\ pc = "ack"
    /\ \E answer \in {"verified", "rejected", "error"} :
        /\ Step("ack", answer # "error")
        /\ IF answer = "error"
           THEN /\ Return(FALSE, "recv ack", "transport")
                /\ UNCHANGED login_ack
           ELSE /\ login_ack' = answer
                /\ pc' = cwop_after_ack(answer)
                /\ UNCHANGED <<sess, result, cause, reported>>
    /\ UNCHANGED <<packet_sent, rsp_status>>
    /\ uploadFrame /\ unchangedRest

\* session.sendall(packet)
CwopSendPacket ==
    /\ service = "cwop" /\ pc = "packet"
    /\ \E ok \in BOOLEAN :
        /\ Step("packet", ok)
        /\ IF ok THEN /\ pc' = "shutdown"
                      /\ packet_sent' = TRUE
                      /\ UNCHANGED <<sess, result, cause, reported>>
                 ELSE /\ Return(FALSE, "sendall packet", "transport")
                      /\ UNCHANGED packet_sent
    /\ UNCHANGED login_ack
    /\ UNCHANGED rsp_status
    /\ uploadFrame /\ unchangedRest

\* session.shutdown(socket.SHUT_RDWR); return True, 'OK'
CwopShutdown ==
    /\ service = "cwop" /\ pc = "shutdown"
    /\ \E ok \in BOOLEAN :
        /\ Step("shutdown", ok)
        /\ IF ok THEN Return(TRUE, "OK",
                             IF login_ack = "rejected" THEN "rejection" ELSE "none")
                 ELSE Return(FALSE, "shutdown", "transport")
    /\ UNCHANGED <<login_ack, packet_sent>>
    /\ UNCHANGED rsp_status
    /\ uploadFrame /\ unchangedRest

\* every status below 300 taken for success
owm_upload_result_2xx(outcome) ==
    IF outcome = 0 THEN Returned(FALSE, "exception")
    ELSE IF outcome >= 300 THEN Returned(FALSE, "http status")
    ELSE Returned(TRUE, "OK")

\* openweathermap.upload_data: the value returned for what session.post did
owm_upload_result(outcome) ==
    IF outcome = 0 THEN Returned(FALSE, "exception")
    ELSE IF outcome # 204 THEN Returned(FALSE, "http status")
    ELSE Returned(TRUE, "OK")

\* rsp = session.post(url, json=[prepared_data], timeout=60); outcome 0 is an
\* exception raised by the post, any other outcome the response's status code
OwmPost ==
    /\ service = "openweathermap" /\ pc = "post"
    /\ \E outcome \in Statuses \cup {0} :
        LET r == owm_upload_result(outcome)
            c == IF outcome = 0 THEN "transport"
                 ELSE IF outcome # 204 THEN "rejection" ELSE "none"
        IN /\ Return(r.ok, r.msg, c)
           /\ Step("post", outcome # 0)
           /\ rsp_status' = outcome
    /\ UNCHANGED <<login_ack, packet_sent>>
    /\ uploadFrame /\ unchangedRest

\* the block that holds the session ends after upload_data has returned
SessionExit ==
    /\ pc = "returned"
    /\ sess' = session_exit(FALSE)
    /\ pc' = "idle"
    /\ UNCHANGED <<result, login_ack, packet_sent, cause, reported>>
    /\ UNCHANGED attemptLog
    /\ uploadFrame /\ unchangedRest

regFrame == UNCHANGED <<service, python3, ws_type, now, last_start,
                        prev_start, trig_last, result, login_ack,
                        packet_sent, cause, reported, steps, raised_at,
                        rsp_status>>

\* register(): which request the branch on self.fixed_data['station_id']
\* selects
register_branch(station_id) == IF station_id # 0 THEN "put" ELSE "post"

\* register() is called: "with self.session() as session" is entered and the
\* branch is taken
RegisterBegin ==
    /\ service = "openweathermap" /\ pc = "idle"
    /\ sess' = session_enter
    /\ reg_op' = register_branch(fixed_station_id)
    /\ pc' = IF reg_op' = "put" THEN "reg_put" ELSE "reg_post"
    /\ UNCHANGED <<params_station_id, fixed_station_id, stations>>
    /\ regFrame /\ unchangedRest

\* update existing station: session.put(url + '/' + station_id); an exception
\* of the put is printed and register returns, rsp.json() may raise
RegisterPut ==
    /\ pc = "reg_put"
    /\ \E outcome \in {"exception", "ok", "badjson"} :
        sess' = session_exit(outcome = "badjson")
    /\ pc' = "idle"
    /\ UNCHANGED <<params_station_id, fixed_station_id, stations, reg_op>>
    /\ regFrame /\ unchangedRest

\* the values register() leaves behind after a station was created with
\* identity id: context.params.set(service_name, 'station id', rsp['ID'])
register_store(id) == [params |-> id, fixed |-> fixed_station_id]

\* create new station: session.post(url); the server either creates a
\* station and answers with its ID, or answers without an ID (rsp['ID']
\* raises KeyError), or the post raises
RegisterPost ==
    /\ pc = "reg_post"
    /\ \E outcome \in {"exception", "created", "refused"} :
        IF outcome = "created"
        THEN /\ Cardinality(stations) < MaxStations
             /\ LET id == Cardinality(stations) + 1
                    st == register_store(id)
                IN /\ stations' = stations \cup {id}
                   /\ params_station_id' = st.params
                   /\ fixed_station_id' = st.fixed
             /\ sess' = session_exit(FALSE)
        ELSE /\ sess' = session_exit(outcome = "refused")
             /\ UNCHANGED <<params_station_id, fixed_station_id, stations>>
    /\ pc' = "idle"
    /\ UNCHANGED reg_op
    /\ regFrame /\ unchangedRest

\* the process is started again and ToService is constructed anew
Construct ==
    /\ service = "openweathermap" /\ pc = "idle"
    /\ fixed_station_id # owm_init_station_id(params_station_id)
    /\ fixed_station_id' = owm_init_station_id(params_station_id)
    /\ UNCHANGED <<params_station_id, stations, reg_op, pc, sess>>
    /\ regFrame /\ unchangedRest

Next ==
    \/ Tick
    \/ Trigger
    \/ CwopConnect
    \/ CwopBanner
    \/ CwopBuild
    \/ CwopSendLogin
    \/ CwopRecvAck
    \/ CwopSendPacket
    \/ CwopShutdown
    \/ OwmPost
    \/ SessionExit
    \/ RegisterBegin
    \/ RegisterPut
    \/ RegisterPost
    \/ Construct

Spec == Init /\ [][Next]_vars

(***************************************************************************)
(* The reading store                                                       *)
(***************************************************************************)
HOUR == 60
DAY  == 1440
REPORTS_MAXIMUM_FREQUENCY == 3
DatetimeMin == -1000000         \* datetime.min, far before every reading

Times   == {100, 102, 103, 1000, 1900, 2900, 4000, 4300}   \* minutes
Temps   == {1, 2}
Rains   == {0, 1}
UtcNows == {1400, 3000, 4400}

Readings == [idx : Times, temp_out : Temps, rain : Rains]

\* the stores: readings in strictly ascending idx order
Stores ==
    UNION { { s \in [1..n -> Readings] :
                \A k \in 1..(n - 1) : s[k].idx < s[k + 1].idx } :
            n \in 0..MaxLen }

max2(a, b) == IF a >= b THEN a ELSE b

\* DataStore.before: position of the last reading earlier than t, 0 if none
before(s, t) ==
    LET ks == {k \in 1..Len(s) : s[k].idx < t}
    IN IF ks = {} THEN 0 ELSE CHOOSE k \in ks : \A j \in ks : j <= k

\* DataStore.after: position of the first reading at or after t, 0 if none
after(s, t) ==
    LET ks == {k \in 1..Len(s) : s[k].idx >= t}
    IN IF ks = {} THEN 0 ELSE CHOOSE k \in ks : \A j \in ks : k <= j

\* DataStore.nearest: position of the reading closest to t, the earlier one
\* of two equally close
nearest(s, t) ==
    LET lo == before(s, t)
        hi == after(s, t)
    IN IF hi = 0 THEN lo
       ELSE IF lo = 0 THEN hi
       ELSE IF s[hi].idx - t < t - s[lo].idx THEN hi ELSE lo

\* calib_data[a:b]: the readings with a <= idx < b, ascending
range(s, a, b) == SelectSeq(s, LAMBDA r : a <= r.idx /\ r.idx < b)

(***************************************************************************)
(* max_temp24                                                              *)
(***************************************************************************)
RECURSIVE max_over(_, _)
\* for r in ...: max_temp = max(max_temp, r['temp_out'])
max_over(rs, acc) ==
    IF rs = <<>> THEN acc
    ELSE max_over(Tail(rs), max2(acc, Head(rs).temp_out))

\* the window anchored at the newest stored reading instead of the report
max_temp24_newest(s, report) ==
    LET start == s[nearest(s, s[Len(s)].idx - DAY)]
    IN max_over(range(s, start.idx, report.idx), report.temp_out)

max_temp24(s, report) ==
    LET start == s[nearest(s, report.idx - DAY)]
    IN max_over(range(s, start.idx, report.idx), report.temp_out)

(***************************************************************************)
(* rain_day                                                                *)
(***************************************************************************)
\* pywws.TimeZone.Local: minutes the local clock is ahead of UTC at the UTC
\* instant t; daylight saving time begins at 1500 (02:00 local, day 1)
utcoffset(t) == IF t >= 1500 THEN 120 ELSE 60

\* the same offset for a local wall-clock time w
wall_utcoffset(w) == IF w >= 1500 + 60 THEN 120 ELSE 60

\* datetime.utcnow() taken to local time, set to 0:00:00 and taken back
local_midnight(t) ==
    LET loc == t + utcoffset(t)
        day == (loc \div DAY) * DAY
    IN day - wall_utcoffset(day)

RECURSIVE midnight_down(_, _)
\* while report['idx'] < midnight: midnight -= DAY
midnight_down(idx, m) == IF idx < m THEN midnight_down(idx, m - DAY) ELSE m

RECURSIVE midnight_up(_, _)
\* while report['idx'] >= midnight + DAY: midnight += DAY
midnight_up(idx, m) == IF idx >= m + DAY THEN midnight_up(idx, m + DAY) ELSE m

rain_accumulation_unclamped(rain, rain_midnight) == rain - rain_midnight

\* return max(0.0, report['rain'] - rain_midnight)
rain_accumulation(rain, rain_midnight) == max2(0, rain - rain_midnight)

\* rain_day: rain_midnight is a local name that only the two loops bind, so
\* "if rain_midnight is None" raises UnboundLocalError when neither ran
rain_day(s, report, t) ==
    LET m0 == local_midnight(t)
        m1 == midnight_down(report.idx, m0)
        m2 == midnight_up(report.idx, m1)
        bound == report.idx < m0 \/ report.idx >= m1 + DAY
        rm == s[nearest(s, m2)].rain
    IN IF bound
       THEN [raised |-> FALSE, midnight |-> m2, rain_midnight |-> rm,
             value |-> rain_accumulation(report.rain, rm)]
       ELSE [raised |-> TRUE, midnight |-> m2, rain_midnight |-> 0,
             value |-> 0]

(***************************************************************************)
(* GenerateBulk                                                            *)
(***************************************************************************)
\* if (report['idx'] - prev_idx) < REPORTS_MAXIMUM_FREQUENCY: continue
dedupe_skip(idx, prev) == idx - prev < REPORTS_MAXIMUM_FREQUENCY

\* 'Rainfall Rate': max(0.0, rain - rain of the reading nearest idx - HOUR)
rainfall_rate(s, report) ==
    max2(0, report.rain - s[nearest(s, report.idx - HOUR)].rain)

InitExport ==
    /\ UploadIdle /\ AggIdle /\ FieldsIdle /\ CatchupIdle
    /\ store \in Stores
    /\ utcnow \in UtcNows
    /\ i = 1
    /\ prev_idx = DatetimeMin
    /\ emitted = <<>>
    /\ fetches = <<>>
    /\ epc = "loop"

exportFrame == UNCHANGED <<uploadVars, aggVars, store, utcnow, fieldVars,
                           catchVars>>

\* the next report is closer than the minimum interval to the last row
ExportSkip ==
    /\ epc = "loop" /\ i <= Len(store)
    /\ dedupe_skip(store[i].idx, prev_idx)
    /\ i' = i + 1
    /\ UNCHANGED <<prev_idx, emitted, fetches, epc>>
    /\ exportFrame

\* the loop body: the row is built and written, unless rain_day raises
ExportRow ==
    /\ epc = "loop" /\ i <= Len(store)
    /\ ~dedupe_skip(store[i].idx, prev_idx)
    /\ LET report == store[i]
           mt == max_temp24(store, report)
           rr == rainfall_rate(store, report)
           rd == rain_day(store, report, utcnow)
       IN IF rd.raised
          THEN /\ epc' = "raised"
               /\ UNCHANGED <<i, prev_idx, emitted, fetches>>
          ELSE /\ emitted' = Append(emitted,
                        [idx |-> report.idx, max_temp |-> mt,
                         rain_rate |-> rr, rain_day |-> rd.value,
                         rain |-> report.rain,
                         rain_midnight |-> rd.rain_midnight])
               /\ fetches' = Append(fetches, rd.midnight)
               /\ prev_idx' = report.idx
               /\ i' = i + 1
               /\ UNCHANGED epc
    /\ exportFrame

\* the range is exhausted: return 0
ExportEnd ==
    /\ epc = "loop" /\ i > Len(store)
    /\ epc' = "done"
    /\ UNCHANGED <<i, prev_idx, emitted, fetches>>
    /\ exportFrame

NextExport == ExportSkip \/ ExportRow \/ ExportEnd

SpecExport == InitExport /\ [][NextExport]_vars

(***************************************************************************)
(* max_temp24 queried before and after the store grows                     *)
(***************************************************************************)
InitAgg ==
    /\ UploadIdle /\ ExportIdle /\ FieldsIdle /\ CatchupIdle
    /\ store \in Stores /\ Len(store) >= 1
    /\ at = 0 /\ res_before = 0 /\ res_after = 0
    /\ apc = "start"

aggFrame == UNCHANGED <<uploadVars, exportVars, fieldVars, catchVars>>

\* max_temp24(calib_data, report) for a stored report
AggQuery ==
    /\ apc = "start"
    /\ \E k \in 1..Len(store) :
        /\ at' = k
        /\ res_before' = max_temp24(store, store[k])
    /\ apc' = "queried"
    /\ UNCHANGED <<store, res_after>>
    /\ aggFrame

\* a reading later than every stored one is appended, and the same report
\* is queried again
AggAppend ==
    /\ apc = "queried"
    /\ \E r \in Readings :
        /\ r.idx > store[Len(store)].idx
        /\ store' = Append(store, r)
        /\ res_after' = max_temp24(store', store'[at])
    /\ apc' = "appended"
    /\ UNCHANGED <<at, res_before>>
    /\ aggFrame

NextAgg == AggQuery \/ AggAppend

SpecAgg == InitAgg /\ [][NextAgg]_vars

(***************************************************************************)
(* Field resolution: the CWOP template and the rows of the CSV export      *)
(***************************************************************************)
\* cwop.ToService.template: for each field the width of the string its
\* format renders and the width of its fallback string, and the
\* configuration under which __init__ puts the field into the template
\* (idx is a date and the two LORAN positions are strings of a conversion
\* whose width the template does not fix; they are left out)
CwopFields ==
    [wind_dir      |-> [width |-> 3, fallback |-> 3, when |-> "always"],
     wind_ave      |-> [width |-> 3, fallback |-> 3, when |-> "always"],
     wind_gust     |-> [width |-> 3, fallback |-> 3, when |-> "always"],
     temp_out      |-> [width |-> 3, fallback |-> 3, when |-> "always"],
     hum_out       |-> [width |-> 2, fallback |-> 2, when |-> "always"],
     rel_pressure  |-> [width |-> 5, fallback |-> 5, when |-> "always"],
     rain_hour     |-> [width |-> 3, fallback |-> 3, when |-> "always"],
     rain_24hr     |-> [width |-> 3, fallback |-> 3, when |-> "always"],
     rain_day      |-> [width |-> 3, fallback |-> 3, when |-> "always"],
     illuminance_t |-> [width |-> 1, fallback |-> 1, when |-> "3080"],
     illuminance   |-> [width |-> 3, fallback |-> 3, when |-> "3080"],
     altitude      |-> [width |-> 6, fallback |-> 0, when |-> "altitude"]]

\* GenerateBulk: how each column of a row is made from the report.  "safe"
\* goes through safe_format, "arith" subtracts from the value before it does,
\* "raw" stores the value itself, "percent" applies the format directly.
\* The widths are those of the formats for a value below 10.
CsvFields ==
    [max_temp24    |-> [width |-> 4, how |-> "safe"],
     temp_out_csv  |-> [width |-> 4, how |-> "safe"],
     dew_point     |-> [width |-> 4, how |-> "safe"],
     rainfall_rate |-> [width |-> 4, how |-> "arith"],
     rainfall_acc  |-> [width |-> 4, how |-> "arith"],
     wind_speed    |-> [width |-> 4, how |-> "safe"],
     wind_gust_csv |-> [width |-> 4, how |-> "safe"],
     wind_dir_csv  |-> [width |-> 1, how |-> "safe"],
     hum_out_csv   |-> [width |-> 1, how |-> "raw"],
     abs_pressure  |-> [width |-> 4, how |-> "percent"]]

\* the template holds the field under configuration c
applicable(f, c) ==
    \/ CwopFields[f].when = "always"
    \/ CwopFields[f].when = "3080" /\ c.ws3080
    \/ CwopFields[f].when = "altitude" /\ c.altitude

Values == {NoValue, [none |-> FALSE, v |-> 0], [none |-> FALSE, v |-> 7]}

Formatted(w) == [raised |-> FALSE, kind |-> "formatted", width |-> w]
Fallback(w)  == [raised |-> FALSE, kind |-> "fallback",  width |-> w]
PyNone       == [raised |-> FALSE, kind |-> "None",      width |-> 0]
RawValue(w)  == [raised |-> FALSE, kind |-> "raw",       width |-> w]
TypeError    == [raised |-> TRUE,  kind |-> "none",      width |-> 0]

\* a template field: the fallback string when the value is missing, the
\* value under the format otherwise
template_field(f, x) ==
    IF x.none THEN Fallback(CwopFields[f].fallback)
    ELSE Formatted(CwopFields[f].width)

\* safe_format: return format % value if value else None
safe_format(w, x) ==
    IF x.none \/ x.v = 0 THEN PyNone ELSE Formatted(w)

\* one column of a CSV row
csv_field(f, x) ==
    LET spec == CsvFields[f]
    IN CASE spec.how = "safe"    -> safe_format(spec.width, x)
         [] spec.how = "arith"   -> IF x.none THEN TypeError
                                    ELSE safe_format(spec.width, x)
         [] spec.how = "raw"     -> IF x.none THEN PyNone
                                    ELSE RawValue(spec.width)
         [] spec.how = "percent" -> IF x.none THEN TypeError
                                    ELSE Formatted(spec.width)

InitFields ==
    /\ UploadIdle /\ ExportIdle /\ AggIdle /\ CatchupIdle
    /\ store = <<>>
    /\ fcfg \in [ws3080 : BOOLEAN, altitude : BOOLEAN]
    /\ fld \in {f \in DOMAIN CwopFields : applicable(f, fcfg)}
               \cup DOMAIN CsvFields
    /\ fval \in Values
    /\ fout = NoOut
    /\ fpc = "start"

fieldFrame == UNCHANGED <<uploadVars, store, exportVars, aggVars, catchVars,
                          fcfg, fld, fval>>

\* the template is processed for one field of prepared_data
ResolveTemplate ==
    /\ fpc = "start" /\ fld \in DOMAIN CwopFields
    /\ fout' = template_field(fld, fval)
    /\ fpc' = "resolved"
    /\ fieldFrame

\* GenerateBulk fills one column of csv_report
ResolveCsv ==
    /\ fpc = "start" /\ fld \in DOMAIN CsvFields
    /\ fout' = csv_field(fld, fval)
    /\ fpc' = "resolved"
    /\ fieldFrame

NextFields == ResolveTemplate \/ ResolveCsv

SpecFields == InitFields /\ [][NextFields]_vars

(***************************************************************************)
(* Claims on the upload service                                            *)
(***************************************************************************)

\* C1: two consecutive attempts of a destination begin at least its interval
\* apart (290 s for CWOP, 40 s for OpenWeatherMap), whatever the outcome of
\* the earlier one and whatever triggers arrived in between.
C1_Throttle ==
    prev_start # -1 =>
        last_start - prev_start >= (IF service = "cwop" THEN 290 ELSE 40)

\* C1 witness: CWOP, two attempts began exactly 290 s apart, the later one
\* has failed, and an event 60 s after its start was dropped.
C1_Witness ==
    /\ service = "cwop"
    /\ prev_start # -1 /\ last_start - prev_start = 290
    /\ ~trig_last.started /\ trig_last.t - last_start = 60
    /\ pc = "idle" /\ result.kind = "returned" /\ ~result.ok

\* C2: once an attempt or a registration has ended, its session is not open.
C2_SessionClosed == pc = "idle" => sess # "open"

\* C2 witness: an exception raised while the caller used the session ended
\* the attempt, and the session is closed.
C2_Witness ==
    /\ pc = "idle" /\ sess = "closed"
    /\ result.kind = "raised" /\ result.msg = "build"

\* C3: register() is idempotent: at most one station identity is ever
\* created, and a register() that runs once an identity is stored does not
\* create another one.
C3_RegisterIdempotent ==
    /\ Cardinality(stations) <= 1
    /\ (pc = "reg_post" => params_station_id = 0)

\* C4: OpenWeatherMap data is posted only once a station id is stored.
C4_RegisteredBeforeUpload ==
    (service = "openweathermap" /\ pc = "post") => params_station_id # 0

\* C5: a CWOP attempt whose login the server rejected neither sends the
\* status packet nor returns success.
C5_RejectedLoginFails ==
    login_ack = "rejected" =>
        /\ ~packet_sent
        /\ ~(result.kind = "returned" /\ result.ok)

\* C6: a failure by transport error and a failure by protocol rejection are
\* never reported as the same outcome.
C6_FailuresClassified ==
    \A a \in reported["transport"], b \in reported["rejection"] : a # b

\* C15: two consecutive CWOP attempts begin at least 5 minutes (300 s)
\* apart.
C15_FiveMinutes ==
    (service = "cwop" /\ prev_start # -1) => last_start - prev_start >= 300

\* the steps of a CWOP session in the order of session() and upload_data
CwopOrder == <<"connect", "banner", "login", "ack", "packet", "shutdown">>

\* the steps performed so far are the first ones of the order, each once
InOrder ==
    /\ Len(steps) <= Len(CwopOrder)
    /\ \A k \in 1..Len(steps) : steps[k] = CwopOrder[k]

\* C16 as stated: the steps of a CWOP session are performed in the fixed
\* order, the packet once at most and after login and acknowledgement, no
\* step follows one that raised, and whichever step raised the attempt
\* returns (False, message).
C16_FailureReturned ==
    service = "cwop" =>
        /\ InOrder
        /\ raised_at # "none" =>
               /\ steps[Len(steps)] = raised_at
               /\ result.kind = "returned" /\ ~result.ok

\* C16 amended: the steps of a CWOP session are performed in the fixed
\* order, the packet once at most and after login and acknowledgement, and
\* no step follows one that raised; when login, acknowledgement, packet or
\* shutdown raised upload_data returns (False, message), when connect or
\* banner raised the exception leaves session() and nothing is returned.
C16_ProtocolOrder ==
    service = "cwop" =>
        /\ InOrder
        /\ raised_at # "none" =>
               /\ steps[Len(steps)] = raised_at
               /\ raised_at \in {"login", "ack", "packet", "shutdown"} =>
                      (result.kind = "returned" /\ ~result.ok)
               /\ raised_at \in {"connect", "banner"} =>
                      result.kind = "raised"

\* C16 witness: a session went through all six steps and sent its packet,
\* after an earlier one of this run had stopped at a step that raised (two
\* attempts were made and a failure of a login or a later step is on record).
C16_Witness ==
    /\ service = "cwop" /\ steps = CwopOrder /\ raised_at = "none"
    /\ packet_sent /\ pc = "returned" /\ prev_start # -1
    /\ FALSE \in reported["transport"]

\* C17: CWOP upload_data never raises: an attempt that reached upload_data
\* does not end by an exception of it.
C17_NeverRaises ==
    service = "cwop" => ~(result.kind = "raised" /\ result.msg = "build")

\* C18: OpenWeatherMap upload_data returns, never raises; it returns
\* (True, 'OK') exactly when the post completed with status 204 and
\* (False, message) otherwise, and it has posted exactly once.
C18_OwmResult ==
    service = "openweathermap" =>
        /\ result.kind # "raised"
        /\ pc = "returned" =>
               /\ result.kind = "returned"
               /\ (result.ok /\ result.msg = "OK") <=> rsp_status = 204
               /\ rsp_status # 204 => (~result.ok /\ result.msg # "OK")
               /\ steps = <<"post">>

\* C18 witness: a post answered with status 200 was returned as a failure,
\* in a run in which the attempt before it had succeeded.
C18_Witness ==
    /\ service = "openweathermap" /\ pc = "returned"
    /\ rsp_status = 200 /\ result = Returned(FALSE, "http status")
    /\ prev_start # -1

(***************************************************************************)
(* Claims on the bulk generator                                            *)
(***************************************************************************)

\* C7: two consecutive rows of the export are at least 3 minutes apart, and
\* once the loop has ended over a non-empty range the first reading of the
\* range is the first row.
C7_Dedupe ==
    /\ \A k \in 1..(Len(emitted) - 1) :
           emitted[k + 1].idx - emitted[k].idx >= 3
    /\ (epc \in {"done", "raised"} /\ Len(store) > 0) =>
           (Len(emitted) > 0 /\ emitted[1].idx = store[1].idx)

\* the part of C7 on the gaps alone
C7_Gaps ==
    \A k \in 1..(Len(emitted) - 1) :
        emitted[k + 1].idx - emitted[k].idx >= 3

\* the true maximum of temp_out over the readings in [at - 24h, at]
true_max24(s, report) ==
    LET w == {k \in 1..Len(s) :
                report.idx - 1440 <= s[k].idx /\ s[k].idx <= report.idx}
    IN CHOOSE v \in {s[k].temp_out : k \in w} :
           \A k \in w : s[k].temp_out <= v

\* C8: max_temp24 at a stored reading is the maximum of temp_out over
\* exactly the stored readings of the 24 hours up to it.
C8_TrueMax ==
    apc = "queried" => res_before = true_max24(store, store[at])

\* the part of C8 that bounds the result from below
C8_AtLeastWindow ==
    apc = "queried" => res_before >= true_max24(store, store[at])

\* C9: appending a reading later than every stored one does not decrease
\* max_temp24 of a stored reading.
C9_MonotonicAppend == apc = "appended" => res_after >= res_before

\* C9 witness: the appended reading is hotter than the result and less than
\* 24 hours after the report, and the report's window holds an older reading.
C9_Witness ==
    /\ apc = "appended" /\ at > 1
    /\ store[Len(store)].temp_out > res_before
    /\ store[Len(store)].idx - store[at].idx < 1440

\* C10: the rainfall accumulation of a row is never negative, and it is the
\* reading's counter minus the midnight reference's counter whenever that
\* difference is not negative.
C10_RainNonNegative ==
    \A k \in 1..Len(emitted) :
        LET d == emitted[k].rain - emitted[k].rain_midnight
        IN /\ emitted[k].rain_day >= 0
           /\ (d >= 0 => emitted[k].rain_day = d)

\* C10 witness: the counter was reset after midnight (the reading's counter
\* is below the reference's) and the row was written with accumulation 0;
\* another row carries a positive accumulation.
C10_Witness ==
    /\ \E k \in 1..Len(emitted) :
           /\ emitted[k].rain < emitted[k].rain_midnight
           /\ emitted[k].rain_day = 0
    /\ \E k \in 1..Len(emitted) : emitted[k].rain_day > 0

\* C11: over one run the midnight reference is looked up at most once for a
\* local day: no two lookups rain_day made are for the same midnight.
C11_OncePerDay ==
    \A a, b \in 1..Len(fetches) : a < b => fetches[a] # fetches[b]

\* C12: the midnight rain_day uses for a row is the instant at which the
\* row's own local calendar day begins.
C12_LocalMidnight ==
    \A k \in 1..Len(emitted) : fetches[k] = local_midnight(emitted[k].idx)

RECURSIVE greedy(_, _, _)
\* the greedy selection over s from position k: a reading is kept unless it
\* is less than 3 minutes after the last kept one
greedy(s, k, last) ==
    IF k > Len(s) THEN <<>>
    ELSE IF s[k].idx - last < 3 THEN greedy(s, k + 1, last)
    ELSE <<s[k].idx>> \o greedy(s, k + 1, s[k].idx)

\* C19: once the loop has ended, the rows written are exactly the greedy
\* selection over the whole range.
C19_Greedy ==
    epc \in {"done", "raised"} =>
        [k \in 1..Len(emitted) |-> emitted[k].idx] = greedy(store, 1, DatetimeMin)

\* the part of C19 on the runs that reach the end of the range
C19_GreedyCompleted ==
    epc = "done" =>
        [k \in 1..Len(emitted) |-> emitted[k].idx] = greedy(store, 1, DatetimeMin)

\* C20: rain_day returns a number for every reading it is called with, and
\* the midnight it ends with satisfies midnight <= idx < midnight + 24h.
C20_RainDayReturns ==
    /\ epc # "raised"
    /\ \A k \in 1..Len(emitted) :
           fetches[k] <= emitted[k].idx /\ emitted[k].idx < fetches[k] + 1440

\* the part of C20 on the calls that return
C20_Bracket ==
    \A k \in 1..Len(emitted) :
        fetches[k] <= emitted[k].idx /\ emitted[k].idx < fetches[k] + 1440

(***************************************************************************)
(* Catch-up of an upload service after an outage                           *)
(***************************************************************************)
MaxBacklog == 9         \* readings missed during the outage, at most
MaxFails   == 2         \* failed attempts during one catch-up, at most

owm_catchup == 7

catchup_unbounded(s) == 1000

\* ToService.catchup of module s; of the two modules openweathermap alone
\* sets it
catchup(s) == owm_catchup

\* the oldest missed reading the catch-up takes up: the readings further
\* back than the catch-up depth are left out
catchup_first(n, depth) == max2(1, n - depth + 1)

InitCatchup ==
    /\ UploadIdle /\ ExportIdle /\ AggIdle /\ FieldsIdle
    /\ store = <<>>
    /\ backlog \in 0..MaxBacklog
    /\ cu_next = 0 /\ uploaded = <<>> /\ watermark = 0 /\ fails = 0
    /\ cpc = "down"

catchFrame == UNCHANGED <<uploadVars, store, exportVars, aggVars, fieldVars,
                          backlog>>

\* the service runs again in logged mode
Resume ==
    /\ cpc = "down"
    /\ cu_next' = catchup_first(backlog, catchup("openweathermap"))
    /\ cpc' = "catchup"
    /\ UNCHANGED <<uploaded, watermark, fails>>
    /\ catchFrame

\* the next missed reading is uploaded and the watermark advances
UploadOk ==
    /\ cpc = "catchup" /\ cu_next <= backlog
    /\ uploaded' = Append(uploaded, cu_next)
    /\ watermark' = cu_next
    /\ cu_next' = cu_next + 1
    /\ UNCHANGED <<fails, cpc>>
    /\ catchFrame

\* an attempt fails: the watermark stays and the reading is tried again
UploadFail ==
    /\ cpc = "catchup" /\ cu_next <= backlog /\ fails < MaxFails
    /\ fails' = fails + 1
    /\ UNCHANGED <<cu_next, uploaded, watermark, cpc>>
    /\ catchFrame

\* nothing is left to catch up with
CatchupEnd ==
    /\ cpc = "catchup" /\ cu_next > backlog
    /\ cpc' = "done"
    /\ UNCHANGED <<cu_next, uploaded, watermark, fails>>
    /\ catchFrame

NextCatchup == Resume \/ UploadOk \/ UploadFail \/ CatchupEnd

SpecCatchup == InitCatchup /\ [][NextCatchup]_vars

(***************************************************************************)
(* Claims on field resolution                                              *)
(***************************************************************************)

\* the width the format of a field renders
declared_width(f) ==
    IF f \in DOMAIN CwopFields THEN CwopFields[f].width ELSE CsvFields[f].width

\* C13: resolving a field never raises, and what it yields is a string in
\* the field's format or a fallback string of the same width as the format.
C13_Total ==
    fpc = "resolved" =>
        /\ ~fout.raised
        /\ fout.kind \in {"formatted", "fallback"}
        /\ fout.width = declared_width(fld)

(***************************************************************************)
(* Claims on catch-up                                                      *)
(***************************************************************************)

\* C14: after an outage the catch-up uploads at most 7 (catchup) of the
\* missed readings, all of them among the 7 most recent, oldest first, and
\* the watermark is the last one uploaded.
C14_CatchupBound ==
    /\ Len(uploaded) <= 7
    /\ \A k \in 1..Len(uploaded) :
           /\ uploaded[k] > backlog - 7 /\ uploaded[k] <= backlog
           /\ k > 1 => uploaded[k - 1] < uploaded[k]
    /\ watermark = IF uploaded = <<>> THEN 0 ELSE uploaded[Len(uploaded)]

\* C14 witness: more than 7 readings were missed, the catch-up has ended
\* after failed attempts, and exactly the 7 most recent were uploaded.
C14_Witness ==
    /\ cpc = "done" /\ backlog > 7 /\ fails > 0
    /\ Len(uploaded) = 7 /\ uploaded[1] = backlog - 6

(***************************************************************************)
(* Claims on safe_format                                                   *)
(***************************************************************************)

\* the columns of the CSV export that go through safe_format
SafeFormatted == {f \in DOMAIN CsvFields : CsvFields[f].how \in {"safe", "arith"}}

\* C21: a column that goes through safe_format holds the missing marker
\* (None) only when its value is missing; a valid value, zero included, is
\* rendered with the column's format.
C21_ZeroRendered ==
    (fpc = "resolved" /\ fld \in SafeFormatted /\ ~fout.raised) =>
        /\ fout = PyNone => fval.none
        /\ ~fval.none => fout = Formatted(CsvFields[fld].width)

\* the part of C21 on the valid values other than zero
C21_NonZeroRendered ==
    (fpc = "resolved" /\ fld \in SafeFormatted /\ ~fval.none /\ fval.v # 0) =>
        fout = Formatted(CsvFields[fld].width)

====
